---------------------------- MODULE Spec2Model ----------------------------
(***************************************************************************)
(* DataLake<Key, Value, InsertPolicy, ExtractPolicy> of src/main.cpp: an   *)
(* append-only log of encoded values plus the in-memory index m_index      *)
(* from a key to the stream offsets recorded for it.                       *)
(*                                                                         *)
(* The class is modelled as instantiated with default-constructible        *)
(* policy objects (the codec), Key = a short string and Value = a class    *)
(* exposing getKey() and an integral conversion.  The two statements       *)
(* m_index(key, value) and m_index(key, in.tellg()) are read as "append    *)
(* the second argument to the list kept for the first", the second         *)
(* argument converted to std::streamoff, the element type of the list.     *)
(***************************************************************************)
EXTENDS Integers, Sequences, FiniteSets, TLC

VARIABLES
    files,        \* the directory's regular files: file id -> sequence of bytes
    map,          \* DataLake::map, filled by the constructor
    m_index,      \* DataLake::m_index: key -> sequence of offsets
    m_filename,   \* DataLake::m_filename: NoFile (empty path) or a file id
    m_directory,  \* DataLake::m_directory
    lastOp,       \* the call that produced this state, and what it gave back
    inserts,      \* per calling thread, the insert it is in the middle of
    rebuild       \* the index_directory call in progress

vars == <<files, map, m_index, m_filename, m_directory, lastOp, inserts, rebuild>>

---------------------------------------------------------------------------
(* Bounds of the model *)

\* bytes held by the log files, together, when the lake is opened
MaxInitLen == 2
\* an append is explored while the whole record fits in this many bytes
MaxFileLen == 4

---------------------------------------------------------------------------
(* Keys, values and the codec *)

Keys == {"a", "b"}

Payloads == {1, 2}

\* Value: getKey() is .key, the payload is .val
Values == [key : Keys, val : Payloads]

\* `Value value;` before an extraction that fails
DefaultValue == [key |-> "", val |-> 0]

\* a value handed to a parameter of type std::streamoff
AsOffset(v) == v.val

Digits == <<"1", "2", "3", "4", "5", "6", "7", "8", "9">>

Garbage == "?"

\* insertPolicy(out, value): the key character, then the payload digit
Encode(v) == <<v.key, Digits[v.val]>>

RecLen == Len(Encode(CHOOSE v \in Values : TRUE))

\* the index is explored up to as many offsets, over all keys, as whole
\* records fit in a file
MaxEntries == MaxFileLen \div RecLen

DigitValue(c) == CHOOSE d \in 1..Len(Digits) : Digits[d] = c

IsDigit(c) == \E d \in 1..Len(Digits) : Digits[d] = c

\* extractPolicy(in, value) succeeds with the stream positioned at off
CanExtract(bytes, off) ==
    /\ off >= 0
    /\ off + RecLen <= Len(bytes)
    /\ bytes[off + 1] \in Keys
    /\ IsDigit(bytes[off + 2])

\* the value extractPolicy(in, value) leaves in `value` at off
Extract(bytes, off) ==
    IF CanExtract(bytes, off)
    THEN [key |-> bytes[off + 1], val |-> DigitValue(bytes[off + 2])]
    ELSE DefaultValue

\* while (extractPolicy(in, value)) ...: the values read from pos on, each
\* with in.tellg() after it
RECURSIVE ScanRecords(_, _)
ScanRecords(bytes, pos) ==
    IF CanExtract(bytes, pos)
    THEN <<[value |-> Extract(bytes, pos), tell |-> pos + RecLen]>>
         \o ScanRecords(bytes, pos + RecLen)
    ELSE <<>>

---------------------------------------------------------------------------
(* The file system *)

NoFile == 0

Files == {1, 2}

LakeDir == "lake"

NoDir == ""

\* std::filesystem::directory_iterator(d): the entries of the lake directory
\* in iteration order; the subdirectory is not a regular file
Listing == << [regular |-> TRUE, id |-> 1],
              [regular |-> FALSE, id |-> NoFile],
              [regular |-> TRUE, id |-> 2] >>

RECURSIVE Flatten(_)
Flatten(recs) ==
    IF recs = <<>> THEN <<>> ELSE Encode(Head(recs)) \o Flatten(Tail(recs))

RECURSIVE SeqsUpTo(_, _)
SeqsUpTo(S, n) ==
    IF n = 0 THEN {<<>>}
    ELSE SeqsUpTo(S, n - 1)
         \cup {Append(s, x) : s \in {t \in SeqsUpTo(S, n - 1) : Len(t) = n - 1}, x \in S}

\* a record cut short by a partial trailing write
TruncatedTails == {SubSeq(Encode(v), 1, n) : v \in Values, n \in 1..(RecLen - 1)}

\* a record whose first byte was overwritten
CorruptRecords == {[Encode(v) EXCEPT ![1] = Garbage] : v \in Values}

\* what a log file written by earlier sessions may hold, in n records or fewer:
\* whole records, whole records and a truncated tail, or whole records with a
\* corrupt one among them
InitContents(n) ==
    {Flatten(recs) : recs \in SeqsUpTo(Values, n)}
    \cup (IF n = 0 THEN {} ELSE
          {Flatten(recs) \o t : recs \in SeqsUpTo(Values, n - 1), t \in TruncatedTails})
    \cup (IF n < 2 THEN {} ELSE
          {Flatten(pre) \o c \o Flatten(post) :
              pre \in SeqsUpTo(Values, n - 2), c \in CorruptRecords,
              post \in {q \in SeqsUpTo(Values, n - 1) : q # <<>>}})

\* records, whole or damaged, in n bytes
RecCount(n) == (n + RecLen - 1) \div RecLen

\* bytes in the files of S
RECURSIVE TotalLen(_, _)
TotalLen(fs, S) ==
    IF S = {} THEN 0
    ELSE LET f == CHOOSE x \in S : TRUE IN Len(fs[f]) + TotalLen(fs, S \ {f})

---------------------------------------------------------------------------
(* The index *)

EmptyIndex == [k \in {} |-> <<>>]

\* m_index(key, x): append x to the list kept for key, creating the list
Record(idx, key, x) ==
    IF key \in DOMAIN idx
    THEN [idx EXCEPT ![key] = Append(@, x)]
    ELSE [k \in DOMAIN idx \cup {key} |-> IF k = key THEN <<x>> ELSE idx[k]]

\* offsets in the index, over the keys of S
RECURSIVE Entries(_, _)
Entries(idx, S) ==
    IF S = {} THEN 0
    ELSE LET k == CHOOSE x \in S : TRUE IN Len(idx[k]) + Entries(idx, S \ {k})

\* m_index.find(key)->second, the empty list standing for m_index.end()
Offsets(idx, key) == IF key \in DOMAIN idx THEN idx[key] ELSE <<>>

---------------------------------------------------------------------------
(* The operations of DataLake, as functions of the fields they read *)

\* the constructor: the values of the file at p go to `map` (the first one
\* of each key is kept); the index and the file names are left empty
RECURSIVE FillMap(_, _)
FillMap(recs, m) ==
    IF recs = <<>> THEN m
    ELSE FillMap(Tail(recs),
                 IF Head(recs).value.key \in DOMAIN m THEN m
                 ELSE [k \in DOMAIN m \cup {Head(recs).value.key} |->
                          IF k \in DOMAIN m THEN m[k] ELSE Head(recs).value])

\* the body of the while loop of index_directory over one file's records
RECURSIVE RecordAll(_, _)
RecordAll(idx, recs) ==
    IF recs = <<>> THEN idx
    ELSE RecordAll(Record(idx, Head(recs).value.key, Head(recs).tell), Tail(recs))

\* a constructor that files what it reads in the index as well
DataLakeIndexing(fs, p, canOpen) ==
    [map         |-> IF canOpen THEN FillMap(ScanRecords(fs[p], 0), EmptyIndex)
                     ELSE EmptyIndex,
     m_index     |-> IF canOpen THEN RecordAll(EmptyIndex, ScanRecords(fs[p], 0))
                     ELSE EmptyIndex,
     m_filename  |-> p,
     m_directory |-> NoDir]

DataLake(fs, p, canOpen) ==
    [map         |-> IF canOpen THEN FillMap(ScanRecords(fs[p], 0), EmptyIndex)
                     ELSE EmptyIndex,
     m_index     |-> EmptyIndex,
     m_filename  |-> NoFile,
     m_directory |-> NoDir]

\* std::ofstream out(m_filename, app | binary); out.is_open()
\* and std::ifstream in(m_filename, binary); in.is_open()
IsOpen(fname, canOpen) == fname # NoFile /\ canOpen

\* an insert whose stream is opened without std::ios::app: the file is
\* truncated and written from its start
insertTruncating(idx, fname, fs, key, value, canOpen, written) ==
    IF IsOpen(fname, canOpen)
    THEN [files   |-> [fs EXCEPT ![fname] = SubSeq(Encode(value), 1, written)],
          m_index |-> Record(idx, key, AsOffset(value))]
    ELSE [files |-> fs, m_index |-> idx]

\* insert(key, value); `written` bytes of the record reach the file
\* (all of them unless the write fails)
insert(idx, fname, fs, key, value, canOpen, written) ==
    IF IsOpen(fname, canOpen)
    THEN [files   |-> [fs EXCEPT ![fname] = @ \o SubSeq(Encode(value), 1, written)],
          m_index |-> Record(idx, key, AsOffset(value))]
    ELSE [files |-> fs, m_index |-> idx]

\* operator[](key): one value per offset of the key, read from m_filename
RECURSIVE ReadAll(_, _, _)
ReadAll(offs, bytes, opened) ==
    IF offs = <<>> THEN <<>>
    ELSE (IF opened THEN <<Extract(bytes, Head(offs))>> ELSE <<>>)
         \o ReadAll(Tail(offs), bytes, opened)

\* a lookup that, for a key it does not find, reads at the offset getOffset
\* gives for it
LookupReadingAbsent(idx, fname, fs, key, canOpen) ==
    IF key \in DOMAIN idx
    THEN ReadAll(idx[key], IF fname = NoFile THEN <<>> ELSE fs[fname],
                 IsOpen(fname, canOpen))
    ELSE ReadAll(<<-1>>, IF fname = NoFile THEN <<>> ELSE fs[fname],
                 IsOpen(fname, canOpen))

Lookup(idx, fname, fs, key, canOpen) ==
    IF key \in DOMAIN idx
    THEN ReadAll(idx[key], IF fname = NoFile THEN <<>> ELSE fs[fname],
                 IsOpen(fname, canOpen))
    ELSE <<>>

\* a remove that clears the index when it finds the key
removeAll(idx, key) == IF key \in DOMAIN idx THEN EmptyIndex ELSE idx

\* remove(key)
remove(idx, key) ==
    IF key \in DOMAIN idx THEN [k \in DOMAIN idx \ {key} |-> idx[k]] ELSE idx

\* clear_index()
clear_index(idx) == EmptyIndex

\* a scan that gives up on a file it cannot read to its end
ScanFileStrict(idx, bytes) ==
    IF Len(ScanRecords(bytes, 0)) * RecLen = Len(bytes)
    THEN RecordAll(idx, ScanRecords(bytes, 0))
    ELSE idx

\* what index_directory does with one open file
ScanFile(idx, bytes) == RecordAll(idx, ScanRecords(bytes, 0))

\* index_directory(d), from entry i of the listing on; openable is the set of
\* files whose std::ifstream opens
RECURSIVE ScanEntries(_, _, _, _, _)
ScanEntries(i, idx, fname, fs, openable) ==
    IF i > Len(Listing) THEN [m_index |-> idx, m_filename |-> fname]
    ELSE IF ~Listing[i].regular THEN ScanEntries(i + 1, idx, fname, fs, openable)
    ELSE ScanEntries(i + 1,
                     IF Listing[i].id \in openable
                     THEN ScanFile(idx, fs[Listing[i].id]) ELSE idx,
                     Listing[i].id, fs, openable)

index_directory(idx, fname, fs, openable) == ScanEntries(1, idx, fname, fs, openable)

\* a getOffset that returns it->second.front()
getOffsetFront(idx, key) == IF key \in DOMAIN idx THEN idx[key][1] ELSE -1

\* getOffset(key)
getOffset(idx, key) == IF key \in DOMAIN idx THEN idx[key][Len(idx[key])] ELSE -1

---------------------------------------------------------------------------
(* The state machine *)

\* the constructor's argument, kept in DataLake::path: the first file of the
\* directory
path == Listing[1].id

\* the threads that call insert
Writers == {1, 2}

\* no insert in progress: no stream, nothing in its buffer
NoInsert == [pc |-> "idle", value |-> DefaultValue, file |-> NoFile, pending |-> <<>>]

\* no index_directory in progress
NoRebuild == [pc |-> "idle", i |-> 0, pos |-> 0,
              pre |-> [m_index |-> EmptyIndex, m_filename |-> NoFile], opened |-> TRUE]

\* every call runs from its first statement to its return with no other
\* call in between
Sequential == UNCHANGED <<inserts, rebuild>>

NoError == "none"

\* the call that was made: its name, its key argument, whether the file it
\* opens did open, and the error it reported to its caller.  No function of
\* DataLake throws or returns a status: each one reports NoError.
Call(op, key, opened) == [op |-> op, key |-> key, opened |-> opened, error |-> NoError]

\* the lake is opened over the first file of the directory, which exists and
\* can be read
Init ==
    /\ files \in {f \in [Files -> InitContents(RecCount(MaxInitLen))] :
                    TotalLen(f, Files) <= MaxInitLen}
    /\ LET lake == DataLake(files, path, TRUE) IN
       /\ map = lake.map
       /\ m_index = lake.m_index
       /\ m_filename = lake.m_filename
       /\ m_directory = lake.m_directory
    /\ lastOp = Call("DataLake", "", TRUE)
    /\ inserts = [w \in Writers |-> NoInsert]
    /\ rebuild = NoRebuild

\* insert(key, value): the open succeeds if canOpen (and a file is named),
\* and `written` bytes of the record reach the file
InsertCall(key, value, canOpen, written) ==
    LET opened == IsOpen(m_filename, canOpen)
        r == insert(m_index, m_filename, files, key, value, canOpen, written) IN
    /\ opened => Len(files[m_filename]) + RecLen <= MaxFileLen
    /\ opened => Entries(m_index, DOMAIN m_index) < MaxEntries
    /\ ~opened => written = 0
    /\ files' = r.files
    /\ m_index' = r.m_index
    /\ lastOp' = Call("insert", key, opened)
    /\ UNCHANGED <<map, m_filename, m_directory>>
    /\ Sequential

\* the caller passes the key of the value it inserts
InsertOp ==
    \E value \in Values, canOpen \in BOOLEAN, written \in 0..RecLen :
       InsertCall(value.key, value, canOpen, written)

\* a lookup that finds the key with m_index[key], which creates the entry of
\* a key that has none
LookupCallCreating(key, canOpen) ==
    /\ m_index' = IF key \in DOMAIN m_index THEN m_index
                  ELSE [k \in DOMAIN m_index \cup {key} |->
                          IF k = key THEN <<>> ELSE m_index[k]]
    /\ lastOp' = Call("lookup", key, key \in DOMAIN m_index /\ IsOpen(m_filename, canOpen))
    /\ UNCHANGED <<files, map, m_filename, m_directory>>
    /\ Sequential

\* operator[](key); what it returns is Lookup of the state, lastOp.key and
\* lastOp.opened.  A key that m_index.find does not find opens no stream.
LookupCall(key, canOpen) ==
    /\ lastOp' = Call("lookup", key, key \in DOMAIN m_index /\ IsOpen(m_filename, canOpen))
    /\ UNCHANGED <<files, map, m_index, m_filename, m_directory>>
    /\ Sequential

LookupOp == \E key \in Keys, canOpen \in BOOLEAN : LookupCall(key, canOpen)

RemoveCall(key) ==
    /\ m_index' = remove(m_index, key)
    /\ lastOp' = Call("remove", key, FALSE)
    /\ UNCHANGED <<files, map, m_filename, m_directory>>
    /\ Sequential

RemoveOp == \E key \in Keys : RemoveCall(key)

ClearIndexOp ==
    /\ m_index' = clear_index(m_index)
    /\ lastOp' = Call("clear_index", "", FALSE)
    /\ UNCHANGED <<files, map, m_filename, m_directory>>
    /\ Sequential

\* index_directory(d) over the lake directory; openable is the set of files
\* whose std::ifstream opens
IndexDirectoryCall(openable) ==
    LET r == index_directory(m_index, m_filename, files, openable) IN
    /\ Entries(r.m_index, DOMAIN r.m_index) <= MaxEntries
    /\ m_directory' = LakeDir
    /\ m_index' = r.m_index
    /\ m_filename' = r.m_filename
    /\ lastOp' = Call("index_directory", "", openable = Files)
    /\ UNCHANGED <<files, map>>
    /\ Sequential

IndexDirectoryOp == \E openable \in SUBSET Files : IndexDirectoryCall(openable)

Next ==
    \/ InsertOp
    \/ LookupOp
    \/ RemoveOp
    \/ ClearIndexOp
    \/ IndexDirectoryOp

Spec == Init /\ [][Next]_vars

---------------------------------------------------------------------------
(* Calls that run at the same time.  DataLake holds no lock and no atomic:   *)
(* each statement of insert and of index_directory is a step of its own,     *)
(* and the steps of different threads interleave.  The callers explored let  *)
(* inserts run together and a lookup come between any two steps; they start  *)
(* index_directory when no insert is in progress, and no insert during it.   *)
(* A lookup is taken in one step.                                            *)

\* the log files hold whole records when the threads start
ConcurrentInit ==
    /\ files \in {f \in [Files -> {Flatten(recs) : recs \in SeqsUpTo(Values, MaxEntries)}] :
                    TotalLen(f, Files) <= MaxFileLen}
    /\ LET lake == DataLake(files, path, TRUE) IN
       /\ map = lake.map
       /\ m_index = lake.m_index
       /\ m_filename = lake.m_filename
       /\ m_directory = lake.m_directory
    /\ lastOp = Call("DataLake", "", TRUE)
    /\ inserts = [w \in Writers |-> NoInsert]
    /\ rebuild = NoRebuild

\* bytes still in the stream buffers of the inserts of S that write to f
RECURSIVE PendingOn(_, _)
PendingOn(f, S) ==
    IF S = {} THEN 0
    ELSE LET w == CHOOSE x \in S : TRUE IN
         (IF inserts[w].file = f THEN Len(inserts[w].pending) ELSE 0)
            + PendingOn(f, S \ {w})

\* insert, line 56: std::ofstream out(m_filename, app | binary); when it is
\* not open the call returns
InsertOpen(w, value, canOpen) ==
    LET opened == IsOpen(m_filename, canOpen) IN
    /\ inserts[w].pc = "idle"
    /\ rebuild.pc = "idle"
    /\ opened => Len(files[m_filename]) + PendingOn(m_filename, Writers) + RecLen
                    <= MaxFileLen
    /\ IF opened
       THEN /\ inserts' = [inserts EXCEPT ![w] =
                             [pc |-> "policy", value |-> value, file |-> m_filename,
                              pending |-> Encode(value)]]
            /\ UNCHANGED lastOp
       ELSE /\ lastOp' = Call("insert", value.key, FALSE)
            /\ UNCHANGED inserts
    /\ UNCHANGED <<files, map, m_index, m_filename, m_directory, rebuild>>

\* insert, line 58: while insertPolicy(out, value) runs, the stream writes
\* the first n bytes of its buffer to the end of the file
InsertFlush(w, n) ==
    /\ inserts[w].pc = "policy"
    /\ n \in 1..Len(inserts[w].pending)
    /\ files' = [files EXCEPT ![inserts[w].file] = @ \o SubSeq(inserts[w].pending, 1, n)]
    /\ inserts' = [inserts EXCEPT ![w].pending =
                      SubSeq(@, n + 1, Len(inserts[w].pending))]
    /\ UNCHANGED <<map, m_index, m_filename, m_directory, lastOp, rebuild>>

\* insert, line 59: m_index(key, value).  The std::map is updated with no
\* synchronisation; the outcome taken is the one in which each thread's update
\* is applied whole.
InsertRecord(w) ==
    /\ inserts[w].pc = "policy"
    /\ Entries(m_index, DOMAIN m_index) < MaxEntries
    /\ m_index' = Record(m_index, inserts[w].value.key, AsOffset(inserts[w].value))
    /\ inserts' = [inserts EXCEPT ![w].pc = "close"]
    /\ UNCHANGED <<files, map, m_filename, m_directory, lastOp, rebuild>>

\* insert, line 61: `out` is destroyed, which writes what its buffer still
\* holds and closes the file
InsertClose(w) ==
    /\ inserts[w].pc = "close"
    /\ files' = [files EXCEPT ![inserts[w].file] = @ \o inserts[w].pending]
    /\ inserts' = [inserts EXCEPT ![w] = NoInsert]
    /\ lastOp' = Call("insert", inserts[w].value.key, TRUE)
    /\ UNCHANGED <<map, m_index, m_filename, m_directory, rebuild>>

\* index_directory, line 92: m_directory = d.  `pre` keeps what the index and
\* m_filename were when the call began, `opened` whether every file met so
\* far opened.
RebuildBegin ==
    /\ rebuild.pc = "idle"
    /\ \A w \in Writers : inserts[w].pc = "idle"
    /\ m_directory' = LakeDir
    /\ rebuild' = [pc |-> "entry", i |-> 1, pos |-> 0,
                   pre |-> [m_index |-> m_index, m_filename |-> m_filename],
                   opened |-> TRUE]
    /\ UNCHANGED <<files, map, m_index, m_filename, lastOp, inserts>>

\* index_directory, lines 93-97: the next entry of the directory; a regular
\* file becomes m_filename and is opened
RebuildEntry(canOpen) ==
    /\ rebuild.pc = "entry"
    /\ IF rebuild.i > Len(Listing)
       THEN /\ rebuild' = NoRebuild
            /\ lastOp' = Call("index_directory", "", rebuild.opened)
            /\ UNCHANGED m_filename
       ELSE IF ~Listing[rebuild.i].regular
       THEN /\ rebuild' = [rebuild EXCEPT !.i = @ + 1]
            /\ UNCHANGED <<m_filename, lastOp>>
       ELSE /\ m_filename' = Listing[rebuild.i].id
            /\ rebuild' = IF canOpen
                          THEN [rebuild EXCEPT !.pc = "scan", !.pos = 0]
                          ELSE [rebuild EXCEPT !.i = @ + 1, !.opened = FALSE]
            /\ UNCHANGED lastOp
    /\ UNCHANGED <<files, map, m_index, m_directory, inserts>>

\* index_directory, lines 99-100: one turn of the while loop over the open
\* file
RebuildRecord ==
    LET bytes == files[Listing[rebuild.i].id] IN
    /\ rebuild.pc = "scan"
    /\ IF CanExtract(bytes, rebuild.pos)
       THEN /\ Entries(m_index, DOMAIN m_index) < MaxEntries
            /\ m_index' = Record(m_index, Extract(bytes, rebuild.pos).key,
                                 rebuild.pos + RecLen)
            /\ rebuild' = [rebuild EXCEPT !.pos = @ + RecLen]
       ELSE /\ rebuild' = [rebuild EXCEPT !.pc = "entry", !.i = @ + 1, !.pos = 0]
            /\ UNCHANGED m_index
    /\ UNCHANGED <<files, map, m_filename, m_directory, lastOp, inserts>>

InsertOpenStep ==
    \E w \in Writers, value \in Values, canOpen \in BOOLEAN : InsertOpen(w, value, canOpen)

InsertFlushStep == \E w \in Writers, n \in 1..RecLen : InsertFlush(w, n)

InsertRecordStep == \E w \in Writers : InsertRecord(w)

InsertCloseStep == \E w \in Writers : InsertClose(w)

RebuildEntryStep == \E canOpen \in BOOLEAN : RebuildEntry(canOpen)

ConcurrentNext ==
    \/ InsertOpenStep
    \/ InsertFlushStep
    \/ InsertRecordStep
    \/ InsertCloseStep
    \/ RebuildBegin
    \/ RebuildEntryStep
    \/ RebuildRecord
    \/ LookupOp

ConcurrentSpec == ConcurrentInit /\ [][ConcurrentNext]_vars

---------------------------------------------------------------------------
(* What the claims speak of *)

\* lookup(k) when the file opens
Lkp(k) == Lookup(m_index, m_filename, files, k, TRUE)

LkpNext(k) == Lookup(m_index', m_filename', files', k, TRUE)

\* the number of well-formed records a file starts with
WholeCount(bytes) ==
    CHOOSE n \in 0..Len(bytes) :
       /\ \A i \in 0..(n - 1) : CanExtract(bytes, i * RecLen)
       /\ ~CanExtract(bytes, n * RecLen)

\* the bytes left after them
Rest(bytes) == Len(bytes) - WholeCount(bytes) * RecLen

\* the file ends in a partially written record
TruncatedTail(bytes) == Rest(bytes) \in 1..(RecLen - 1)

\* the file holds a malformed record followed by further bytes
InteriorCorrupt(bytes) == Rest(bytes) > RecLen

\* the values of a file's records, in record order
LogValues(bytes) == [i \in 1..WholeCount(bytes) |-> Extract(bytes, (i - 1) * RecLen)]

\* the values of the directory's records, by file order, then record order
RECURSIVE DirValues(_, _)
DirValues(fs, i) ==
    IF i > Len(Listing) THEN <<>>
    ELSE (IF Listing[i].regular THEN LogValues(fs[Listing[i].id]) ELSE <<>>)
         \o DirValues(fs, i + 1)

RECURSIVE Filter(_, _)
Filter(vs, k) ==
    IF vs = <<>> THEN <<>>
    ELSE (IF Head(vs).key = k THEN <<Head(vs)>> ELSE <<>>) \o Filter(Tail(vs), k)

\* the version history of k in the log: its values in write order
History(fs, k) == Filter(DirValues(fs, 1), k)

\* an insert that the environment lets through: the open and the write succeed
\* whenever a file is named
GoodInsert(v) ==
    /\ lastOp'.op = "insert"
    /\ InsertCall(v.key, v, TRUE, IF m_filename = NoFile THEN 0 ELSE RecLen)

\* a rebuild in which every file opens
GoodRebuild == lastOp'.op = "index_directory" /\ IndexDirectoryCall(Files)

EmptyLake == (\A f \in Files : files[f] = <<>>) /\ DOMAIN m_index = {}

---------------------------------------------------------------------------
(* C1 - C6: insert, lookup and rebuild *)

\* C1: round trip.  From an empty lake (every log file empty, the index
\* empty), after insert(v) the call lookup(key(v)) returns exactly <<v>>.
C1_RoundTrip ==
    [][\A v \in Values :
          (EmptyLake /\ GoodInsert(v)) => LkpNext(v.key) = <<v>>]_vars

\* C2: multi-version ordering.  Once an active file is selected, each
\* insert(v) extends lookup(key(v)) by v, at its end, and leaves the result of
\* lookup for every other key as it was; so lookup(k) is the sequence of the
\* values inserted under k, oldest first.
C2_WriteOrder ==
    [][\A v \in Values :
          (m_filename # NoFile /\ GoodInsert(v))
             => /\ LkpNext(v.key) = Append(Lkp(v.key), v)
                /\ \A k \in Keys \ {v.key} : LkpNext(k) = Lkp(k)]_vars

\* C3: index validity.  In every reachable state every offset stored under
\* key k is the start of a complete record of the file it is resolved
\* against, and the record decoded there has key k.
C3_IndexValid ==
    \A k \in DOMAIN m_index :
       \A i \in 1..Len(m_index[k]) :
          /\ m_filename # NoFile
          /\ CanExtract(files[m_filename], m_index[k][i])
          /\ Extract(files[m_filename], m_index[k][i]).key = k

\* C4: rebuild correctness.  After rebuild(directory), whatever the index
\* held before, lookup(k) is for every key k the values of the records with
\* key k in the directory's files, by file order, then record order.
C4_RebuildCorrect ==
    [][GoodRebuild => \A k \in Keys : LkpNext(k) = History(files, k)]_vars

\* C5: rebuild idempotence.  A rebuild that directly follows a rebuild, with
\* no write in between, leaves lookup(k) and the latest offset of k as they
\* were, for every key k.
C5_RebuildIdempotent ==
    [][(lastOp.op = "index_directory" /\ lastOp.opened /\ GoodRebuild)
          => \A k \in Keys :
                /\ LkpNext(k) = Lkp(k)
                /\ getOffset(m_index', k) = getOffset(m_index, k)]_vars

\* C6: delete-then-rebuild resurrection.  After delete(k), lookup(k) is
\* empty; after a rebuild that follows it over the same files, lookup(k) is
\* the full version history of k in write order.
C6_DeleteThenRebuild ==
    [][\A k \in Keys :
          /\ RemoveCall(k) => LkpNext(k) = <<>>
          /\ (lastOp.op = "remove" /\ lastOp.key = k /\ History(files, k) # <<>>
                /\ GoodRebuild)
             => LkpNext(k) = History(files, k)]_vars

---------------------------------------------------------------------------
(* C7 - C10: unindexed data, damaged files, failed appends *)

\* C7: isolation of unindexed data.  Opening the lake populates no index
\* entry, whatever records the log files hold: lookup(K) is empty for every
\* key K, and it stays empty until a step that is a rebuild or an insert
\* under K.
C7_Isolation ==
    /\ \A K \in Keys, c \in BOOLEAN : Lookup(m_index, m_filename, files, K, c) = <<>>
    /\ [][\A K \in Keys :
             (Lkp(K) = <<>> /\ LkpNext(K) # <<>>)
                => \/ lastOp'.op = "index_directory"
                   \/ (lastOp'.op = "insert" /\ lastOp'.key = K)]_vars

\* C7's case: a log file holds a record of K, no rebuild was made, K was
\* looked up and the lookup is empty
C7_Witness ==
    /\ lastOp.op = "lookup"
    /\ m_directory = NoDir
    /\ History(files, lastOp.key) # <<>>
    /\ Lookup(m_index, m_filename, files, lastOp.key, lastOp.opened) = <<>>

\* records of key k among the well-formed records a file starts with
CountKey(bytes, k) ==
    Cardinality({i \in 1..WholeCount(bytes) : LogValues(bytes)[i].key = k})

RECURSIVE CountIn(_, _, _)
CountIn(fs, S, k) ==
    IF S = {} THEN 0
    ELSE LET f == CHOOSE x \in S : TRUE IN
         CountKey(fs[f], k) + CountIn(fs, S \ {f}, k)

C9_InteriorCorruptionFatal ==
    [][(lastOp'.op = "index_directory"
          /\ (\E f \in Files : InteriorCorrupt(files[f]))
          /\ GoodRebuild)
          => lastOp'.error = "CorruptRecord"]_vars

\* C10: a failed insert leaves the index unchanged.  If the open of the
\* active file fails, or fewer bytes than the record are written, the index
\* after insert is the index before it.
C10_FailedInsert ==
    [][\A v \in Values, canOpen \in BOOLEAN, written \in 0..RecLen :
          ((~IsOpen(m_filename, canOpen) \/ written < RecLen)
             /\ lastOp'.op = "insert"
             /\ InsertCall(v.key, v, canOpen, written))
          => m_index' = m_index]_vars

---------------------------------------------------------------------------
(* C11 - C13: failures and missing keys *)

\* the call that produced this state tried to open a log file and could not
OpenFailed ==
    /\ \/ lastOp.op \in {"insert", "index_directory"}
       \/ (lastOp.op = "lookup" /\ lastOp.key \in DOMAIN m_index)
    /\ ~lastOp.opened

\* C11: I/O failures are surfaced.  Whenever insert, lookup or rebuild could
\* not open a log file, the call has reported IOFailure to its caller.
C11_IOFailureSurfaced == OpenFailed => lastOp.error = "IOFailure"

C13_MissingKey ==
    /\ [](\A k \in Keys \ DOMAIN m_index :
            /\ \A c \in BOOLEAN : Lookup(m_index, m_filename, files, k, c) = <<>>
            /\ getOffset(m_index, k) = -1)
    /\ [][(lastOp'.op = "lookup" /\ lastOp'.key \notin DOMAIN m_index)
             => /\ ~lastOp'.opened
                /\ lastOp'.error = NoError
                /\ files' = files]_vars

\* C13's case: a key was looked up that the index does not hold, while it
\* holds another key and the log holds a record of the missing one
C13_Witness ==
    /\ lastOp.op = "lookup"
    /\ lastOp.key \notin DOMAIN m_index
    /\ DOMAIN m_index # {}
    /\ History(files, lastOp.key) # <<>>

---------------------------------------------------------------------------
(* C14 - C16: calls that run at the same time *)

\* C14: single-writer appends.  Whenever no insert is in progress, every log
\* file is a sequence of whole records: the bytes of two inserts that ran at
\* the same time lie in the file as two complete records, one after the other.
C14_NoInterleaving ==
    (\A w \in Writers : inserts[w].pc = "idle")
       => \A f \in Files : WholeCount(files[f]) * RecLen = Len(files[f])

\* what lookup(k) returns under index idx and file name fname
LkpUnder(idx, fname, k) == Lookup(idx, fname, files, k, TRUE)

\* the index and file name that the index_directory in progress ends with
RebuildResult ==
    index_directory(rebuild.pre.m_index, rebuild.pre.m_filename, files, Files)

\* C15: rebuild is atomic to readers.  While an index_directory is in
\* progress and every file it met has opened, a lookup returns for every key
\* either what it returned when the rebuild began or what it returns when the
\* rebuild has ended.
C15_RebuildAtomic ==
    (rebuild.pc # "idle" /\ rebuild.opened)
       => \A k \in Keys :
             \/ Lkp(k) = LkpUnder(rebuild.pre.m_index, rebuild.pre.m_filename, k)
             \/ Lkp(k) = LkpUnder(RebuildResult.m_index, RebuildResult.m_filename, k)

\* C16: append happens-before publication.  When an insert has put its entry
\* in the index, every byte of its record is in the file.
C16_AppendBeforePublish ==
    \A w \in Writers : inserts[w].pc = "close" => inserts[w].pending = <<>>

---------------------------------------------------------------------------
(* C17 - C20: what each operation leaves alone *)

IsPrefix(s, t) == Len(s) <= Len(t) /\ SubSeq(t, 1, Len(s)) = s

\* C17: only the active file grows.  Every step that changes a log file
\* changes the file selected when the lake was opened, and no other.
C17_OnlyActiveFileGrows ==
    [][files' = files \/ \A f \in Files : files'[f] # files[f] => f = path]_vars

\* C18: the log is append-only.  A step that changes a log file is an insert,
\* it changes the file insert writes to and no other, and what the file held
\* is a prefix of what it holds after; delete, clear_index, lookup and rebuild
\* leave every file as it was.
C18_AppendOnly ==
    [][files' = files
         \/ /\ lastOp'.op = "insert"
            /\ \A f \in Files :
                  /\ IsPrefix(files[f], files'[f])
                  /\ files'[f] # files[f] => f = m_filename]_vars

\* C18's case: an insert has appended to a file that held bytes before
C18_Witness ==
    /\ lastOp.op = "insert"
    /\ lastOp.opened
    /\ Len(files[m_filename]) > MaxInitLen

\* C19: delete(k) affects only k.  A remove(k) leaves the offsets of every
\* other key as they were, and a remove(k) of a key that is not indexed
\* leaves the whole index as it was.
C19_RemoveOnlyKey ==
    [][lastOp'.op = "remove"
         => /\ \A j \in Keys \ {lastOp'.key} :
                  /\ j \in DOMAIN m_index' <=> j \in DOMAIN m_index
                  /\ Offsets(m_index', j) = Offsets(m_index, j)
            /\ lastOp'.key \notin DOMAIN m_index => m_index' = m_index]_vars

\* C19's case: a key was removed whose records the log holds, and the index
\* still holds another key
C19_Witness ==
    /\ lastOp.op = "remove"
    /\ lastOp.key \notin DOMAIN m_index
    /\ History(files, lastOp.key) # <<>>
    /\ \E j \in DOMAIN m_index : Len(m_index[j]) >= 1

\* C20: lookup is read-only.  A lookup changes neither the index, nor
\* m_filename, nor any log file, so the lookup of every key returns after it
\* what it returned before.
C20_LookupReadOnly ==
    [][lastOp'.op = "lookup"
         => /\ m_index' = m_index
            /\ m_filename' = m_filename
            /\ files' = files
            /\ \A k \in Keys : LkpNext(k) = Lkp(k)]_vars

\* C20's case: a key was looked up that has versions in the index
C20_Witness ==
    /\ lastOp.op = "lookup"
    /\ lastOp.opened
    /\ Lkp(lastOp.key) # <<>>

============================================================================
